---- MODULE Spec2Model ----
\* Model of the incremental build engine of dds: the dependency-metadata
\* store protocol (update_deps_info), the staleness oracle
\* (get_prior_compilation), the executor's recompile decision and the
\* library plan builder (library_plan::create).
EXTENDS Integers, Sequences, FiniteSets, TLC

\* ---------------------------------------------------------------------
\* Bounds
\* ---------------------------------------------------------------------
\* modification times are 1..MaxTime
MaxTime == 2
\* a dependency listing names at most MaxInputs input files
MaxInputs == 2

\* ---------------------------------------------------------------------
\* Universe of the store model
\* ---------------------------------------------------------------------
Outputs == {"o1", "o2"}
Paths == {"a", "b"}
Commands == {"c1", "c2"}
\* compilations holds no row for the output
NoCommand == "none"

\* std::optional
None == {}
Some(v) == {v}
TheValue(opt) == CHOOSE v \in opt : TRUE

\* Filesystem status of a path: a modification time, or one of
FileMissing == 0
StatError == -1
FileStates == {FileMissing, StatError} \cup (1..MaxTime)

\* fs::exists(p): false when the path does not exist; throws when the status
\* of the path cannot be determined
fs_exists(fs, p) == fs[p] >= 1
fs_exists_throws(fs, p) == fs[p] = StatError
\* fs::last_write_time(p): throws unless the path can be stat-ed
last_write_time(fs, p) == fs[p]
last_write_time_throws(fs, p) == fs[p] < 1

\* Dependency listings: ordered, without repeated paths
InputLists ==
    UNION { { s \in [1..k -> Paths] : \A i, j \in 1..k : i # j => s[i] # s[j] }
            : k \in 0..MaxInputs }

\* Dependency listings as the toolchain reports them. The store and the
\* executor treat all paths alike, so a listing and the one with the paths
\* in the other order behave alike up to renaming the paths: one order per
\* set of paths is kept
Precedes(p, q) == (p = "a" /\ q = "b")
ReportedInputLists ==
    { s \in InputLists : \A i, j \in 1..Len(s) : i < j => Precedes(s[i], s[j]) }

\* file_deps_info
file_deps_info(output, command, inputs) ==
    [output |-> output, command |-> command, inputs |-> inputs]

\* input_file_info
input_file_info(path, mtime) == [path |-> path, last_mtime |-> mtime]

\* ---------------------------------------------------------------------
\* The metadata store (database): compilations and deps tables
\* ---------------------------------------------------------------------
EmptyDatabase ==
    [compilations |-> [o \in Outputs |-> NoCommand],
     deps |-> [o \in Outputs |-> <<>>]]

record_compilation(db, output, command) ==
    [db EXCEPT !.compilations[output] = command]

forget_inputs_of(db, output) ==
    [db EXCEPT !.deps[output] = <<>>]

record_dep(db, inp, output, mtime) ==
    [db EXCEPT !.deps[output] = Append(@, input_file_info(inp, mtime))]

command_of(db, output) ==
    IF db.compilations[output] = NoCommand
    THEN None
    ELSE Some(db.compilations[output])

inputs_of(db, output) ==
    IF db.deps[output] = <<>>
    THEN None
    ELSE Some(db.deps[output])

\* ---------------------------------------------------------------------
\* update_deps_info
\* ---------------------------------------------------------------------
\* The loop over deps.inputs from index i on: stops at the first input whose
\* modification time cannot be read, keeping the rows written so far.
RECURSIVE record_inputs(_, _, _, _)
record_inputs(db, fs, deps, i) ==
    IF i > Len(deps.inputs)
    THEN [db |-> db, threw |-> FALSE]
    ELSE IF last_write_time_throws(fs, deps.inputs[i])
         THEN [db |-> db, threw |-> TRUE]
         ELSE record_inputs(record_dep(db,
                                       deps.inputs[i],
                                       deps.output,
                                       last_write_time(fs, deps.inputs[i])),
                            fs, deps, i + 1)

\* update_deps_info without its record_compilation call
update_deps_info_keeps_command(db, fs, deps) ==
    record_inputs(forget_inputs_of(db, deps.output), fs, deps, 1)

\* update_deps_info without its forget_inputs_of call
update_deps_info_keeps_inputs(db, fs, deps) ==
    record_inputs(record_compilation(db, deps.output, deps.command), fs, deps, 1)

\* update_deps_info forgetting the inputs of every output
update_deps_info_forgets_every_output(db, fs, deps) ==
    record_inputs([record_compilation(db, deps.output, deps.command)
                      EXCEPT !.deps = [o \in Outputs |-> <<>>]],
                  fs, deps, 1)

update_deps_info(db, fs, deps) ==
    record_inputs(forget_inputs_of(record_compilation(db, deps.output, deps.command),
                                   deps.output),
                  fs, deps, 1)

\* ---------------------------------------------------------------------
\* get_prior_compilation
\* ---------------------------------------------------------------------
AbsentResult ==
    [kind |-> "absent", newer_inputs |-> <<>>, previous_command |-> NoCommand]
ThrowsResult ==
    [kind |-> "throws", newer_inputs |-> <<>>, previous_command |-> NoCommand]

\* The filter predicate of line 94 makes two calls per input: fs::exists
\* and then, for a path that exists, fs::last_write_time. Nothing keeps the
\* filesystem from changing in between: fs is the filesystem fs::exists
\* reads and later the one fs::last_write_time reads.

\* the filter predicate with "newer than recorded" in place of "differs"
input_changed_only_newer(fs, later, input) ==
    \/ ~fs_exists(fs, input.path)
    \/ last_write_time(later, input.path) > input.last_mtime

\* the filter predicate with the comparison inverted
input_changed_when_equal(fs, later, input) ==
    \/ ~fs_exists(fs, input.path)
    \/ last_write_time(later, input.path) = input.last_mtime

\* the filter predicate of changed_files
input_changed(fs, later, input) ==
    \/ ~fs_exists(fs, input.path)
    \/ last_write_time(later, input.path) # input.last_mtime

\* the filter predicate throws: fs::exists cannot determine the status of
\* the path, or the path exists and fs::last_write_time cannot stat it
input_throws(fs, later, input) ==
    \/ fs_exists_throws(fs, input.path)
    \/ fs_exists(fs, input.path) /\ last_write_time_throws(later, input.path)

changed_files(fs, later, inputs) ==
    LET Changed(input) == input_changed(fs, later, input)
        kept == SelectSeq(inputs, Changed)
    IN  [i \in 1..Len(kept) |-> kept[i].path]

\* lines 82-101: what get_prior_compilation returns from the two values it
\* has read from the store
oracle_result(fs, later, seen) ==
    IF seen.cmd = None \/ seen.inputs = None THEN AbsentResult
    ELSE IF \E i \in 1..Len(TheValue(seen.inputs)) :
                input_throws(fs, later, TheValue(seen.inputs)[i])
         THEN ThrowsResult
         ELSE [kind |-> "prior",
               newer_inputs |-> changed_files(fs, later, TheValue(seen.inputs)),
               previous_command |-> TheValue(seen.cmd)]

\* get_prior_compilation while the filesystem goes from fs to later
get_prior_compilation_racing(db, fs, later, output_path) ==
    LET cmd_ == command_of(db, output_path)
        inputs_ == inputs_of(db, output_path)
    IN  IF cmd_ = None THEN AbsentResult
        ELSE IF inputs_ = None THEN AbsentResult
        ELSE oracle_result(fs, later, [cmd |-> cmd_, inputs |-> inputs_])

\* get_prior_compilation on a filesystem that does not change during the call
get_prior_compilation(db, fs, output_path) ==
    get_prior_compilation_racing(db, fs, fs, output_path)

\* the recorded inputs that fs::exists finds
found_inputs(fs, seen) ==
    IF seen.cmd = None \/ seen.inputs = None THEN {}
    ELSE { TheValue(seen.inputs)[i].path :
             i \in { j \in 1..Len(TheValue(seen.inputs)) :
                       fs_exists(fs, TheValue(seen.inputs)[j].path) } }

\* the paths a call stats twice: the filter runs over the inputs in recorded
\* order and the first exception ends the call, so fs::last_write_time is
\* called for the inputs that fs::exists finds and that no throwing input
\* precedes
stated_twice(fs, later, seen) ==
    IF seen.cmd = None \/ seen.inputs = None THEN {}
    ELSE LET inputs == TheValue(seen.inputs)
         IN  { inputs[i].path :
                 i \in { j \in 1..Len(inputs) :
                           /\ fs_exists(fs, inputs[j].path)
                           /\ \A k \in 1..(j - 1) :
                                 ~input_throws(fs, later, inputs[k]) } }

\* fs::last_write_time can read later when fs::exists has read fs: only a
\* path that the call stats twice has changed, to one of the states
read_during(fs, later, seen, states) ==
    \A p \in Paths :
        later[p] # fs[p] => p \in stated_twice(fs, later, seen) /\ later[p] \in states

\* the filesystems fs::last_write_time can read when fs::exists has read fs
states_during(fs, seen, states) ==
    LET found == found_inputs(fs, seen)
        changed == { [p \in Paths |-> IF p \in found THEN g[p] ELSE fs[p]] :
                       g \in [found -> states \cup { fs[p] : p \in found }] }
    IN  { later \in changed : read_during(fs, later, seen, states) }

\* ---------------------------------------------------------------------
\* State
\* ---------------------------------------------------------------------
VARIABLES
    db,         \* the metadata store
    fs,         \* the filesystem: path -> FileStates
    committed,  \* per output: the record written by the latest update_deps_info
                \* call for it, if that call ran to completion
    last,       \* the latest operation on the store, its output and its outcome
    intended,   \* per compile node: the command the executor intends to run
    nodeState,  \* per compile node: what the current run did
    phase,      \* "idle" between runs of the executor, "running" within one
    prevOK,     \* the latest finished run completed successfully
    change,     \* what changed since the latest finished run
    atStart,    \* what held when the current run began
    wpc,        \* per worker thread: its position in the node it runs
    wseen,      \* per worker thread: what get_prior_compilation has read so far
    wjob,       \* per worker thread: the file_deps_info update_deps_info writes
    lastGood,   \* per output: the record of its latest completed update
    lib,        \* the library_root given to library_plan::create
    params,     \* the library_build_params given to library_plan::create
    plan,       \* the library_plan it returned, once it has
    text,       \* the text given to a dependency-info parser
    cwd,        \* the names of the files present in the working directory
    parsed      \* what the parser returned, once it has

storeVars == <<db, fs, committed, last>>
execVars == <<intended, nodeState, phase, prevOK, change, atStart>>
concVars == <<wpc, wseen, wjob, lastGood>>
vars == <<db, fs, committed, last, intended, nodeState, phase, prevOK, change, atStart,
          wpc, wseen, wjob, lastGood, lib, params, plan, text, cwd, parsed>>
planVars == <<lib, params, plan>>
parseVars == <<text, cwd, parsed>>

NoOutput == "none"

Op(op, output, outcome) == [op |-> op, output |-> output, outcome |-> outcome]

\* the record of one output as stored
stored_record(d, output) ==
    [command |-> d.compilations[output], inputs |-> d.deps[output]]

\* the record a complete update writes: the command and, per listed input,
\* the modification time read while updating
new_record(f, deps) ==
    [command |-> deps.command,
     inputs |-> [i \in 1..Len(deps.inputs) |->
                    input_file_info(deps.inputs[i], f[deps.inputs[i]])]]

InitStore ==
    /\ db = EmptyDatabase
    /\ fs = [p \in Paths |-> 1]
    /\ committed = [o \in Outputs |-> None]
    /\ last = Op("init", NoOutput, "none")

NoChange == [kind |-> "none", path |-> "none"]
OtherChange == [kind |-> "other", path |-> "none"]
MtimeChange(p) == [kind |-> "mtime", path |-> p]

Unconstrained ==
    [clean |-> FALSE, touched |-> "none", listing |-> {}, withInputs |-> {}]

InitExec ==
    /\ intended = [n \in Outputs |-> "c1"]
    /\ nodeState = [n \in Outputs |-> "pending"]
    /\ phase = "idle"
    /\ prevOK = FALSE
    /\ change = OtherChange
    /\ atStart = Unconstrained

Workers == {"w1", "w2"}
\* the output path each worker thread holds: no two threads hold the same one
WorkerNode == [w \in Workers |-> IF w = "w1" THEN "o1" ELSE "o2"]

NothingSeen == [cmd |-> None, inputs |-> None]
NoJob == [deps |-> file_deps_info(NoOutput, NoCommand, <<>>), next |-> 0]

InitConc ==
    /\ wpc = [w \in Workers |-> "idle"]
    /\ wseen = [w \in Workers |-> NothingSeen]
    /\ wjob = [w \in Workers |-> NoJob]
    /\ lastGood = [o \in Outputs |-> None]

\* no library is being planned
NoLibrary == [src_exists |-> FALSE, src |-> <<>>,
              include_exists |-> FALSE, include |-> <<>>,
              uses |-> <<>>, links |-> <<>>]
NoParams == [build_tests |-> FALSE, build_apps |-> FALSE, test_uses |-> <<>>]

InitNoPlan ==
    /\ lib = NoLibrary
    /\ params = NoParams
    /\ plan = None

\* no text is being parsed
InitNoParse ==
    /\ text = <<>>
    /\ cwd = {}
    /\ parsed = None

Init == InitStore /\ InitExec /\ InitConc /\ InitNoPlan /\ InitNoParse

\* ---------------------------------------------------------------------
\* Operations on the store
\* ---------------------------------------------------------------------
\* One call of update_deps_info: runs to completion, or stops where
\* fs::last_write_time throws.
UpdateDepsInfo(o, c, ins) ==
    LET deps == file_deps_info(o, c, ins)
        r == update_deps_info(db, fs, deps)
    IN  /\ db' = r.db
        /\ committed' = [committed EXCEPT
                            ![o] = IF r.threw THEN None ELSE Some(new_record(fs, deps))]
        /\ last' = Op("update_deps_info", o, IF r.threw THEN "threw" ELSE "committed")
        /\ UNCHANGED fs
        /\ UNCHANGED execVars
        /\ UNCHANGED concVars
        /\ UNCHANGED planVars
        /\ UNCHANGED parseVars

\* One call of get_prior_compilation, with the deletions the environment
\* makes between fs::exists and fs::last_write_time of an input.  Any other
\* change between the two calls gives the call the result, and leaves the
\* filesystem, that Touch followed by a call without a change gives:
\* fs::exists reads only whether the file is there, and a file that cannot
\* be stat'ed makes either call throw.
GetPriorCompilation(o, later) ==
    /\ read_during(fs, later, [cmd |-> command_of(db, o), inputs |-> inputs_of(db, o)],
                   {FileMissing})
    /\ last' = Op("get_prior_compilation", o,
                  get_prior_compilation_racing(db, fs, later, o).kind)
    /\ fs' = later
    /\ UNCHANGED <<db, committed>>
    /\ UNCHANGED execVars
    /\ UNCHANGED concVars
    /\ UNCHANGED planVars
    /\ UNCHANGED parseVars

\* The environment changes a file: creates, deletes or rewrites it, or makes
\* it impossible to stat.
Touch(p, v) ==
    /\ v # fs[p]
    /\ fs' = [fs EXCEPT ![p] = v]
    /\ last' = Op("touch", NoOutput, "none")
    /\ UNCHANGED <<db, committed>>
    /\ UNCHANGED execVars
    /\ UNCHANGED concVars
    /\ UNCHANGED planVars
    /\ UNCHANGED parseVars

NextStore ==
    \/ \E o \in Outputs, c \in Commands, ins \in ReportedInputLists :
          UpdateDepsInfo(o, c, ins)
    \/ \E o \in Outputs :
          \E later \in states_during(fs, [cmd |-> command_of(db, o),
                                          inputs |-> inputs_of(db, o)], {FileMissing}) :
              GetPriorCompilation(o, later)
    \/ \E p \in Paths, v \in FileStates : Touch(p, v)

Spec == Init /\ [][NextStore]_vars

\* ---------------------------------------------------------------------
\* Properties of the store protocol
\* ---------------------------------------------------------------------
UpdateCommitted(o) ==
    /\ last.op = "update_deps_info"
    /\ last.output = o
    /\ last.outcome = "committed"

OracleCalled(o) ==
    /\ last.op = "get_prior_compilation"
    /\ last.output = o

\* C1: a call of update_deps_info that does not run to completion leaves,
\* for its output, either the complete prior record or the complete new
\* record in the store, never a mixture of the two.
C1_UpdateAtomic ==
    [][\A o \in Outputs, c \in Commands, ins \in ReportedInputLists :
          UpdateDepsInfo(o, c, ins)
          => stored_record(db', o) \in
                {stored_record(db, o), new_record(fs, file_deps_info(o, c, ins))}]_vars

\* C2 (as stated): after a committed update of an output, inputs_of is not
\* absent and command_of is the invoked command, whatever the input list.
C2_InputsNeverAbsent ==
    \A o \in Outputs :
        UpdateCommitted(o)
        => /\ inputs_of(db, o) # None
           /\ command_of(db, o) = Some(TheValue(committed[o]).command)

\* C2 (amended): after a committed update of an output, command_of is the
\* invoked command, and inputs_of is not absent exactly when the dependency
\* info lists at least one input.
C2_InputsAbsentIffEmpty ==
    \A o \in Outputs :
        UpdateCommitted(o)
        => /\ inputs_of(db, o) # None <=> TheValue(committed[o]).inputs # <<>>
           /\ command_of(db, o) = Some(TheValue(committed[o]).command)

C2_Witness ==
    \E o \in Outputs :
        /\ UpdateCommitted(o)
        /\ Len(TheValue(committed[o]).inputs) = 2
        /\ inputs_of(db, o) # None

\* C3: for every output whose latest update ran to completion, the store
\* holds exactly the command and the inputs of that update, in order, each
\* input with the modification time read during the update.
C3_LatestRecordStored ==
    \A o \in Outputs :
        committed[o] # None => stored_record(db, o) = TheValue(committed[o])

C3_Witness ==
    /\ \A o \in Outputs : committed[o] # None
    /\ \E o \in Outputs :
          /\ db.compilations[o] = "c2"
          /\ Len(db.deps[o]) = 1
          /\ fs[db.deps[o][1].path] # db.deps[o][1].last_mtime

\* the recorded inputs that do not exist or whose modification time differs
\* from the recorded one, in recorded order
RECURSIVE expected_changed(_, _)
expected_changed(f, rows) ==
    IF rows = <<>> THEN <<>>
    ELSE LET row == Head(rows)
             rest == expected_changed(f, Tail(rows))
         IN  IF f[row.path] = FileMissing \/ f[row.path] # row.last_mtime
             THEN <<row.path>> \o rest
             ELSE rest

\* C6: get_prior_compilation returns absent exactly when command_of or
\* inputs_of is absent; otherwise it returns the stored command and the
\* recorded inputs that are missing or whose modification time differs, in
\* recorded order.
C6_OracleResult ==
    \A o \in Outputs :
        OracleCalled(o)
        => LET r == get_prior_compilation(db, fs, o)
           IN  IF command_of(db, o) = None \/ inputs_of(db, o) = None
               THEN last.outcome = "absent"
               ELSE /\ last.outcome = "prior"
                    /\ r.previous_command = db.compilations[o]
                    /\ r.newer_inputs = expected_changed(fs, db.deps[o])

\* C9: when a recorded input cannot be stat-ed, get_prior_compilation still
\* returns a prior compilation, and it lists that input as changed.
C9_StatErrorIsChange ==
    \A o \in Outputs :
        OracleCalled(o) /\ command_of(db, o) # None
        => \A i \in 1..Len(db.deps[o]) :
              fs[db.deps[o][i].path] = StatError
              => LET r == get_prior_compilation(db, fs, o)
                 IN  /\ last.outcome = "prior"
                     /\ \E j \in 1..Len(r.newer_inputs) :
                           r.newer_inputs[j] = db.deps[o][i].path

\* ---------------------------------------------------------------------
\* The plan executor: one compile node per output path
\* ---------------------------------------------------------------------
\* the recompile decision on a result of the staleness oracle
should_compile(r, command) ==
    \/ r.kind = "absent"
    \/ r.previous_command # command
    \/ r.newer_inputs # <<>>

\* the store after a failed toolchain invocation
after_toolchain_failure(d, output, command) == d

recorded_paths(d, n) == { d.deps[n][i].path : i \in 1..Len(d.deps[n]) }

BeginRun ==
    /\ phase = "idle"
    /\ phase' = "running"
    /\ nodeState' = [n \in Outputs |-> "pending"]
    /\ atStart' =
          IF prevOK /\ change.kind # "other"
          THEN [clean |-> change.kind = "none",
                touched |-> change.path,
                listing |-> { n \in Outputs : change.path \in recorded_paths(db, n) },
                withInputs |-> { n \in Outputs : db.deps[n] # <<>> }]
          ELSE Unconstrained
    /\ UNCHANGED <<db, fs, committed, last, intended, prevOK, change>>
    /\ UNCHANGED concVars
    /\ UNCHANGED planVars
    /\ UNCHANGED parseVars

\* the oracle finds the node fresh: the artifact is reused
NodeReuse(n) ==
    LET r == get_prior_compilation(db, fs, n)
    IN  /\ phase = "running"
        /\ nodeState[n] = "pending"
        /\ r.kind # "throws"
        /\ ~should_compile(r, intended[n])
        /\ nodeState' = [nodeState EXCEPT ![n] = "reused"]
        /\ UNCHANGED <<db, fs, committed, last, intended, phase, prevOK, change, atStart>>
        /\ UNCHANGED concVars
        /\ UNCHANGED planVars
        /\ UNCHANGED parseVars

\* the node is stale, the toolchain succeeds and reports the inputs ins; the
\* update protocol runs
NodeCompile(n, ins) ==
    LET r == get_prior_compilation(db, fs, n)
        u == update_deps_info(db, fs, file_deps_info(n, intended[n], ins))
    IN  /\ phase = "running"
        /\ nodeState[n] = "pending"
        /\ r.kind # "throws"
        /\ should_compile(r, intended[n])
        /\ db' = u.db
        /\ nodeState' = [nodeState EXCEPT ![n] = IF u.threw THEN "error" ELSE "compiled"]
        /\ UNCHANGED <<fs, committed, last, intended, phase, prevOK, change, atStart>>
        /\ UNCHANGED concVars
        /\ UNCHANGED planVars
        /\ UNCHANGED parseVars

\* the node is stale and the toolchain fails
NodeToolchainFails(n) ==
    LET r == get_prior_compilation(db, fs, n)
    IN  /\ phase = "running"
        /\ nodeState[n] = "pending"
        /\ r.kind # "throws"
        /\ should_compile(r, intended[n])
        /\ db' = after_toolchain_failure(db, n, intended[n])
        /\ nodeState' = [nodeState EXCEPT ![n] = "failed"]
        /\ UNCHANGED <<fs, committed, last, intended, phase, prevOK, change, atStart>>
        /\ UNCHANGED concVars
        /\ UNCHANGED planVars
        /\ UNCHANGED parseVars

\* the oracle throws: the node ends in error without a toolchain invocation
NodeOracleThrows(n) ==
    /\ phase = "running"
    /\ nodeState[n] = "pending"
    /\ get_prior_compilation(db, fs, n).kind = "throws"
    /\ nodeState' = [nodeState EXCEPT ![n] = "error"]
    /\ UNCHANGED <<db, fs, committed, last, intended, phase, prevOK, change, atStart>>
    /\ UNCHANGED concVars
    /\ UNCHANGED planVars
    /\ UNCHANGED parseVars

\* the run ends when every node is done, or early after a failure
EndRun ==
    /\ phase = "running"
    /\ \/ \A n \in Outputs : nodeState[n] # "pending"
       \/ \E n \in Outputs : nodeState[n] \in {"failed", "error"}
    /\ phase' = "idle"
    /\ prevOK' = \A n \in Outputs : nodeState[n] \in {"reused", "compiled"}
    /\ change' = IF prevOK' THEN NoChange ELSE OtherChange
    /\ nodeState' = [n \in Outputs |-> "pending"]
    /\ atStart' = Unconstrained
    /\ UNCHANGED <<db, fs, committed, last, intended>>
    /\ UNCHANGED concVars
    /\ UNCHANGED planVars
    /\ UNCHANGED parseVars

\* between runs the environment changes a file
ExecTouch(p, v) ==
    /\ phase = "idle"
    /\ v # fs[p]
    /\ fs' = [fs EXCEPT ![p] = v]
    /\ change' = IF change.kind = "none" /\ fs[p] >= 1 /\ v >= 1
                 THEN MtimeChange(p)
                 ELSE OtherChange
    /\ UNCHANGED <<db, committed, last, intended, nodeState, phase, prevOK, atStart>>
    /\ UNCHANGED concVars
    /\ UNCHANGED planVars
    /\ UNCHANGED parseVars

\* between runs the toolchain's flags change, and with them the command of
\* every node of the plan
ChangeCommand(c) ==
    /\ phase = "idle"
    /\ \E n \in Outputs : c # intended[n]
    /\ intended' = [n \in Outputs |-> c]
    /\ change' = OtherChange
    /\ UNCHANGED <<db, fs, committed, last, nodeState, phase, prevOK, atStart>>
    /\ UNCHANGED concVars
    /\ UNCHANGED planVars
    /\ UNCHANGED parseVars

NextExec ==
    \/ BeginRun
    \/ \E n \in Outputs : NodeReuse(n)
    \/ \E n \in Outputs, ins \in ReportedInputLists : NodeCompile(n, ins)
    \/ \E n \in Outputs : NodeToolchainFails(n)
    \/ \E n \in Outputs : NodeOracleThrows(n)
    \/ EndRun
    \/ \E p \in Paths, v \in FileStates : ExecTouch(p, v)
    \/ \E c \in Commands : ChangeCommand(c)

SpecExec == Init /\ [][NextExec]_vars

\* ---------------------------------------------------------------------
\* Properties of the executor
\* ---------------------------------------------------------------------
\* the run in progress follows a successful run with no change in between
CleanRerun == atStart # Unconstrained /\ atStart.clean

\* the run in progress follows a successful run after which exactly one
\* existing file, a recorded input, was given another modification time
TouchedRerun == atStart # Unconstrained /\ ~atStart.clean /\ atStart.listing # {}

\* the toolchain was invoked for the node in the run in progress
Invoked(n) == nodeState[n] \in {"compiled", "failed", "error"}

\* C4 (as stated): in a run that follows a successful run with the same
\* commands and no file change, no node invokes the toolchain.
C4_NoInvocationOnRerun ==
    CleanRerun => \A n \in Outputs : ~Invoked(n)

\* C4 (amended): in a run that follows a successful run with the same
\* commands and no file change, every node whose record lists at least one
\* input gets from the oracle a prior compilation with no changed input and
\* the intended command, and is reused; a node whose record lists no input
\* gets absent and is never reused.
C4_NoInvocationWhenInputsRecorded ==
    CleanRerun
    => \A n \in Outputs :
          LET r == get_prior_compilation(db, fs, n)
          IN  IF n \in atStart.withInputs
              THEN /\ ~Invoked(n)
                   /\ r.kind = "prior"
                   /\ r.newer_inputs = <<>>
                   /\ r.previous_command = intended[n]
              ELSE nodeState[n] # "reused"

C4_Witness ==
    /\ CleanRerun
    /\ atStart.withInputs = Outputs
    /\ \A n \in Outputs : nodeState[n] = "reused"

\* C5 (as stated): in a run that follows a successful run after which
\* exactly one recorded input was given another modification time, a node
\* invokes the toolchain iff its record listed that file.
C5_ExactlyDependentsRecompiled ==
    TouchedRerun
    => \A n \in Outputs :
          nodeState[n] # "pending" => (Invoked(n) <=> n \in atStart.listing)

\* C5 (amended): in such a run a node invokes the toolchain iff its record
\* listed that file or listed no input at all.
C5_DependentsAndInputlessRecompiled ==
    TouchedRerun
    => \A n \in Outputs :
          nodeState[n] # "pending"
          => (Invoked(n) <=> (n \in atStart.listing \/ n \notin atStart.withInputs))

C5_Witness ==
    /\ TouchedRerun
    /\ atStart.withInputs = Outputs
    /\ \E n, m \in Outputs :
          /\ n \in atStart.listing
          /\ m \notin atStart.listing
          /\ nodeState[n] = "compiled"
          /\ nodeState[m] = "reused"

\* ---------------------------------------------------------------------
\* Worker threads against the shared store
\* ---------------------------------------------------------------------
\* Each worker runs, for the output path it holds, get_prior_compilation and
\* then update_deps_info, one database operation per step.

Release(w) ==
    /\ wpc' = [wpc EXCEPT ![w] = "idle"]
    /\ wseen' = [wseen EXCEPT ![w] = NothingSeen]
    /\ wjob' = [wjob EXCEPT ![w] = NoJob]

\* get_prior_compilation, line 81: cmd_ = db.command_of(output_path)
OracleCommandOf(w) ==
    /\ wpc[w] = "idle"
    /\ wseen' = [wseen EXCEPT ![w] = [cmd |-> command_of(db, WorkerNode[w]),
                                      inputs |-> None]]
    /\ wpc' = [wpc EXCEPT ![w] = IF command_of(db, WorkerNode[w]) = None
                                 THEN "decide"
                                 ELSE "inputs_of"]
    /\ UNCHANGED <<db, wjob, lastGood>>
    /\ UNCHANGED <<fs, committed, last>>
    /\ UNCHANGED execVars
    /\ UNCHANGED planVars
    /\ UNCHANGED parseVars

\* get_prior_compilation, line 86: inputs_ = db.inputs_of(output_path)
OracleInputsOf(w) ==
    /\ wpc[w] = "inputs_of"
    /\ wseen' = [wseen EXCEPT ![w].inputs = inputs_of(db, WorkerNode[w])]
    /\ wpc' = [wpc EXCEPT ![w] = "decide"]
    /\ UNCHANGED <<db, wjob, lastGood>>
    /\ UNCHANGED <<fs, committed, last>>
    /\ UNCHANGED execVars
    /\ UNCHANGED planVars
    /\ UNCHANGED parseVars

\* The environment of the workers only deletes files, and a deletion
\* between the two calls on an input makes the call throw: the calls that
\* return have read one filesystem.

\* the node is fresh for the intended command c: nothing is run
WorkerReuse(w, c) ==
    /\ wpc[w] = "decide"
    /\ oracle_result(fs, fs, wseen[w]).kind # "throws"
    /\ ~should_compile(oracle_result(fs, fs, wseen[w]), c)
    /\ Release(w)
    /\ UNCHANGED <<db, lastGood>>
    /\ UNCHANGED <<fs, committed, last>>
    /\ UNCHANGED execVars
    /\ UNCHANGED planVars
    /\ UNCHANGED parseVars

\* the node is stale for the intended command c: the toolchain runs and
\* reports the inputs ins, and update_deps_info is entered
WorkerCompile(w, c, ins) ==
    /\ wpc[w] = "decide"
    /\ oracle_result(fs, fs, wseen[w]).kind # "throws"
    /\ should_compile(oracle_result(fs, fs, wseen[w]), c)
    /\ wjob' = [wjob EXCEPT ![w] = [deps |-> file_deps_info(WorkerNode[w], c, ins),
                                    next |-> 1]]
    /\ wseen' = [wseen EXCEPT ![w] = NothingSeen]
    /\ wpc' = [wpc EXCEPT ![w] = "record_compilation"]
    /\ UNCHANGED <<db, lastGood>>
    /\ UNCHANGED <<fs, committed, last>>
    /\ UNCHANGED execVars
    /\ UNCHANGED planVars
    /\ UNCHANGED parseVars

\* the filter predicate throws out of get_prior_compilation, on a path that
\* cannot be stat-ed or on one deleted between fs::exists and
\* fs::last_write_time: the node ends in error and nothing is run
WorkerOracleThrows(w, later) ==
    /\ wpc[w] = "decide"
    /\ read_during(fs, later, wseen[w], {FileMissing})
    /\ oracle_result(fs, later, wseen[w]).kind = "throws"
    /\ fs' = later
    /\ Release(w)
    /\ UNCHANGED <<db, lastGood>>
    /\ UNCHANGED <<committed, last>>
    /\ UNCHANGED execVars
    /\ UNCHANGED planVars
    /\ UNCHANGED parseVars

\* update_deps_info, line 71
UpdateRecordCompilation(w) ==
    /\ wpc[w] = "record_compilation"
    /\ db' = record_compilation(db, wjob[w].deps.output, wjob[w].deps.command)
    /\ wpc' = [wpc EXCEPT ![w] = "forget_inputs_of"]
    /\ UNCHANGED <<wseen, wjob, lastGood>>
    /\ UNCHANGED <<fs, committed, last>>
    /\ UNCHANGED execVars
    /\ UNCHANGED planVars
    /\ UNCHANGED parseVars

\* update_deps_info, line 72
UpdateForgetInputs(w) ==
    /\ wpc[w] = "forget_inputs_of"
    /\ db' = forget_inputs_of(db, wjob[w].deps.output)
    /\ wpc' = [wpc EXCEPT ![w] = "record_dep"]
    /\ UNCHANGED <<wseen, wjob, lastGood>>
    /\ UNCHANGED <<fs, committed, last>>
    /\ UNCHANGED execVars
    /\ UNCHANGED planVars
    /\ UNCHANGED parseVars

\* update_deps_info, lines 73-76: one iteration of the loop
UpdateRecordDep(w) ==
    LET deps == wjob[w].deps
        inp == deps.inputs[wjob[w].next]
    IN  /\ wpc[w] = "record_dep"
        /\ wjob[w].next <= Len(deps.inputs)
        /\ ~last_write_time_throws(fs, inp)
        /\ db' = record_dep(db, inp, deps.output, last_write_time(fs, inp))
        /\ wjob' = [wjob EXCEPT ![w].next = @ + 1]
        /\ UNCHANGED <<wpc, wseen, lastGood>>
        /\ UNCHANGED <<fs, committed, last>>
        /\ UNCHANGED execVars
    /\ UNCHANGED planVars
    /\ UNCHANGED parseVars

\* update_deps_info, line 74: fs::last_write_time throws and the call is
\* left with what it has written so far
UpdateThrows(w) ==
    LET deps == wjob[w].deps
    IN  /\ wpc[w] = "record_dep"
        /\ wjob[w].next <= Len(deps.inputs)
        /\ last_write_time_throws(fs, deps.inputs[wjob[w].next])
        /\ Release(w)
        /\ UNCHANGED <<db, lastGood>>
        /\ UNCHANGED <<fs, committed, last>>
        /\ UNCHANGED execVars
    /\ UNCHANGED planVars
    /\ UNCHANGED parseVars

\* update_deps_info, line 77: the loop is over and the call returns
UpdateReturns(w) ==
    LET deps == wjob[w].deps
    IN  /\ wpc[w] = "record_dep"
        /\ wjob[w].next > Len(deps.inputs)
        /\ lastGood' = [lastGood EXCEPT ![deps.output] = Some(stored_record(db, deps.output))]
        /\ Release(w)
        /\ UNCHANGED db
        /\ UNCHANGED <<fs, committed, last>>
        /\ UNCHANGED execVars
    /\ UNCHANGED planVars
    /\ UNCHANGED parseVars

\* a file is deleted while the workers run
ConcDelete(p) ==
    /\ fs[p] # FileMissing
    /\ fs' = [fs EXCEPT ![p] = FileMissing]
    /\ UNCHANGED <<db, committed, last>>
    /\ UNCHANGED execVars
    /\ UNCHANGED concVars
    /\ UNCHANGED planVars
    /\ UNCHANGED parseVars

NextConc ==
    \/ \E w \in Workers : OracleCommandOf(w)
    \/ \E w \in Workers : OracleInputsOf(w)
    \/ \E w \in Workers, c \in Commands : WorkerReuse(w, c)
    \/ \E w \in Workers, c \in Commands, ins \in ReportedInputLists : WorkerCompile(w, c, ins)
    \/ \E w \in Workers :
          \E later \in states_during(fs, wseen[w], {FileMissing}) :
              WorkerOracleThrows(w, later)
    \/ \E w \in Workers : UpdateRecordCompilation(w)
    \/ \E w \in Workers : UpdateForgetInputs(w)
    \/ \E w \in Workers : UpdateRecordDep(w)
    \/ \E w \in Workers : UpdateThrows(w)
    \/ \E w \in Workers : UpdateReturns(w)
    \/ \E p \in Paths : ConcDelete(p)

SpecConc == Init /\ [][NextConc]_vars

\* C7: the command and the input list that one call of
\* get_prior_compilation combines are those of one record of the output,
\* written by an update that ran to completion.
C7_OracleReadsCommittedRecord ==
    \A w \in Workers :
        (wpc[w] = "decide" /\ wseen[w].cmd # None /\ wseen[w].inputs # None)
        => /\ lastGood[WorkerNode[w]] # None
           /\ TheValue(lastGood[WorkerNode[w]]).command = TheValue(wseen[w].cmd)
           /\ TheValue(lastGood[WorkerNode[w]]).inputs = TheValue(wseen[w].inputs)

\* ---------------------------------------------------------------------
\* library_plan::create
\* ---------------------------------------------------------------------
\* Bounds: files under src/ and under include/
MaxSrcFiles == 2
MaxIncludeFiles == 1

Stems == {"x", "y"}
SourceKinds == {"test", "app", "source", "header_template", "header", "header_impl"}
Usages == {"u1", "u2"}
TestUsages == {"t1"}

\* source_file: a file of kind `kind` named `stem` (plus the extension of
\* its kind) below the root `dir`: the files named x lie directly under
\* the root, the files named y in its subdirectory sub/
source_file(dir, stem, kind) == [dir |-> dir, stem |-> stem, kind |-> kind]

\* the directory of a file, relative to its source root
directory_of(stem) == IF stem = "x" THEN <<>> ELSE <<"sub">>

\* source_file::relative_path: the path of the file below its source root
\* (src/ or include/); the last two components stand for the file name
relative_path(sf) == directory_of(sf.stem) \o <<sf.stem, sf.kind>>

\* path::parent_path of a relative path that names a file
parent_path(path) == SubSeq(path, 1, Len(path) - 2)

\* A path is the sequence of elements that iterating over it gives: the
\* root directory is the element "/", so the root alone is <<"/">>, and a
\* path that ends in a separator has an empty last element.

\* path::is_absolute: the first element of an absolute path is its root
is_absolute(path) == path # <<>> /\ path[1] = "/"

\* path::has_filename: the last element is neither the root nor empty
has_filename(path) == path # <<>> /\ path[Len(path)] \notin {"", "/"}

\* path::operator/: an absolute right-hand side replaces the left-hand side;
\* otherwise a separator is added when the left-hand side has a filename,
\* and the right-hand side follows
path_join(lhs, rhs) ==
    IF is_absolute(rhs) \/ lhs = <<>> THEN rhs
    ELSE IF has_filename(lhs)
         THEN IF rhs = <<>> THEN lhs \o <<"">> ELSE lhs \o rhs
    ELSE IF lhs[Len(lhs)] = "/" THEN lhs \o rhs
    ELSE IF rhs = <<>> THEN lhs
    ELSE SubSeq(lhs, 1, Len(lhs) - 1) \o rhs

\* the order in which collect_sources lists the files of one directory
KindRank(kind) ==
    CASE kind = "source" -> 1
      [] kind = "header" -> 2
      [] kind = "header_template" -> 3
      [] kind = "header_impl" -> 4
      [] kind = "app" -> 5
      [] kind = "test" -> 6
FileBefore(f, g) ==
    \/ (f.stem = "x" /\ g.stem = "y")
    \/ (f.stem = g.stem /\ KindRank(f.kind) < KindRank(g.kind))

FileLists(dir, kinds, max) ==
    UNION { { s \in [1..k -> { source_file(dir, st, kd) : st \in Stems, kd \in kinds }] :
                \A i, j \in 1..k : i < j => FileBefore(s[i], s[j]) }
            : k \in 0..max }

\* source_root::exists and source_root::collect_sources
collect_sources(exists, files) == IF exists THEN files ELSE <<>>

\* is_header(source_kind)
is_header(kind) == kind \in {"header", "header_impl", "header_template"}

\* paths are sequences of components
out_subdir == <<"_build">>
path_namespace == <<"ns">>
gen_dir_qual == <<"__dds", "gen">>
rebase_gen_incdir(subdir) == path_join(gen_dir_qual, subdir)

\* shared_compile_file_rules
compile_rules_of(include_dirs, uses, syntax_only) ==
    [include_dirs |-> include_dirs, uses |-> uses, syntax_only |-> syntax_only]

\* library_root::append_public_compile_rules, append_private_compile_rules
append_public_compile_rules(rules) ==
    [rules EXCEPT !.include_dirs = @ \o << <<"public_include_dir">> >>]
append_private_compile_rules(rules) ==
    [rules EXCEPT !.include_dirs = @ \o << <<"private_include_dir">> >>]

compile_file_plan(rules, sf, subdir) ==
    [rules |-> rules, source |-> sf, subdir |-> subdir]

\* one result per element of a sequence
RECURSIVE compile_each(_, _, _)
compile_each(files, rules, subdir) ==
    IF files = <<>> THEN <<>>
    ELSE <<compile_file_plan(rules, Head(files), subdir)>>
         \o compile_each(Tail(files), rules, subdir)

of_kind(files, kind) ==
    LET Is(sf) == sf.kind = kind IN SelectSeq(files, Is)

\* lines 70-83: the public headers collected from include/
public_headers_of(files) ==
    LET Keep(sf) == is_header(sf.kind) /\ sf.kind = "header" IN SelectSeq(files, Keep)

\* an archive plan whatever the compiled files
archive_plan_always(out_dir, lib_compile_files) ==
    Some([out_dir |-> out_dir, compile_files |-> lib_compile_files])

\* lines 133-144: the optional create_archive_plan
archive_plan_of(out_dir, lib_compile_files) ==
    IF lib_compile_files # <<>>
    THEN Some([out_dir |-> out_dir, compile_files |-> lib_compile_files])
    ELSE None

\* a link plan whose entry source is compiled with the app rules, test or not
link_executable_plan_app_rules(source, out_dir, compile_rules, test_rules, links, test_links) ==
    LET is_test == source.kind = "test"
        subdir_base == IF is_test THEN path_join(out_dir, <<"test">>) ELSE out_dir
        subdir == path_join(subdir_base, parent_path(relative_path(source)))
    IN  [links |-> IF is_test THEN test_links ELSE links,
         compile |-> compile_file_plan(compile_rules, source, path_join(out_dir, <<"obj">>)),
         subdir |-> subdir,
         name |-> source.stem]

\* lines 159-185: the link_executable_plan of one admitted entry source
link_executable_plan(source, out_dir, compile_rules, test_rules, links, test_links) ==
    LET is_test == source.kind = "test"
        subdir_base == IF is_test THEN path_join(out_dir, <<"test">>) ELSE out_dir
        subdir == path_join(subdir_base, parent_path(relative_path(source)))
    IN  [links |-> IF is_test THEN test_links ELSE links,
         compile |-> compile_file_plan(IF is_test THEN test_rules ELSE compile_rules,
                                       source, path_join(out_dir, <<"obj">>)),
         subdir |-> subdir,
         name |-> source.stem]

\* an entry source is linked whatever build_apps says
admitted_whatever_build_apps(source, p) ==
    LET is_test == source.kind = "test"
    IN  ~(is_test /\ ~p.build_tests)

\* lines 161-169: the entry sources the loop does not skip
admitted(source, p) ==
    LET is_test == source.kind = "test"
    IN  /\ ~(is_test /\ ~p.build_tests)
        /\ ~(~is_test /\ ~p.build_apps)

RECURSIVE link_each(_, _, _, _, _, _, _)
link_each(sources, p, out_dir, compile_rules, test_rules, links, test_links) ==
    IF sources = <<>> THEN <<>>
    ELSE LET source == Head(sources)
             rest == link_each(Tail(sources), p, out_dir, compile_rules, test_rules,
                               links, test_links)
         IN  IF ~admitted(source, p) THEN rest
             ELSE <<link_executable_plan(source, out_dir, compile_rules, test_rules,
                                         links, test_links)>> \o rest

RECURSIVE render_each(_, _)
render_each(files, codegen_subdir) ==
    IF files = <<>> THEN <<>>
    ELSE <<[source |-> Head(files), out_dir |-> codegen_subdir]>>
         \o render_each(Tail(files), codegen_subdir)

\* the header lists kept whatever build_tests says
keep_header_checks(p, headers) == headers

\* lines 84-87: without build_tests the header lists are cleared
clear_unless_build_tests(p, headers) ==
    IF ~p.build_tests THEN <<>> ELSE headers

library_plan_create(l, p) ==
    LET out_dir == path_join(out_subdir, path_namespace)
        all_src == collect_sources(l.src_exists, l.src)
        test_sources == of_kind(all_src, "test")
        app_sources == of_kind(all_src, "app")
        lib_sources == of_kind(all_src, "source")
        template_sources == of_kind(all_src, "header_template")
        all_include == collect_sources(l.include_exists, l.include)
        header_sources == clear_unless_build_tests(p, of_kind(all_src, "header"))
        public_header_sources ==
            clear_unless_build_tests(p, public_headers_of(all_include))
        codegen_subdir == rebase_gen_incdir(out_dir)
        rules0 == append_public_compile_rules(compile_rules_of(<<>>, l.uses, FALSE))
        rules1 == IF template_sources # <<>>
                  THEN [rules0 EXCEPT !.include_dirs = @ \o <<codegen_subdir>>]
                  ELSE rules0
        public_header_compile_rules == [rules1 EXCEPT !.syntax_only = TRUE]
        src_header_compile_rules ==
            append_private_compile_rules(public_header_compile_rules)
        compile_rules == append_private_compile_rules(rules1)
        lib_compile_files == compile_each(lib_sources, compile_rules,
                                          path_join(out_dir, <<"obj">>))
        header_indep_plan ==
            compile_each(header_sources, src_header_compile_rules,
                         path_join(out_dir, <<"timestamps">>))
            \o compile_each(public_header_sources, public_header_compile_rules,
                            path_join(out_dir, <<"timestamps">>))
        links == l.uses \o l.links
        test_rules == [compile_rules EXCEPT !.uses = @ \o p.test_uses]
        test_links == links \o p.test_uses
    IN  [out_dir |-> out_dir,
         archive_plan |-> archive_plan_of(out_dir, lib_compile_files),
         link_executables |-> link_each(app_sources \o test_sources, p, out_dir,
                                        compile_rules, test_rules, links, test_links),
         render_templates |-> render_each(template_sources, codegen_subdir),
         header_indep_plan |-> header_indep_plan,
         compile_rules |-> compile_rules]

IncludeKinds == {"header", "header_template", "header_impl", "source"}
UsageLists == { <<>> } \cup { <<u>> : u \in Usages }

Libraries ==
    { [src_exists |-> se, src |-> sf, include_exists |-> ie, include |-> inc,
       uses |-> us, links |-> ls] :
        se \in BOOLEAN, sf \in FileLists("src", SourceKinds, MaxSrcFiles),
        ie \in BOOLEAN, inc \in FileLists("include", IncludeKinds, MaxIncludeFiles),
        us \in { <<>>, <<"u1">> }, ls \in UsageLists }

BuildParams ==
    { [build_tests |-> bt, build_apps |-> ba, test_uses |-> tu] :
        bt \in BOOLEAN, ba \in BOOLEAN, tu \in { <<>> } \cup { <<t>> : t \in TestUsages } }

\* a library on disk: a directory that does not exist holds no file
LibraryOnDisk(l) ==
    /\ (~l.src_exists => l.src = <<>>)
    /\ (~l.include_exists => l.include = <<>>)

InitPlan ==
    /\ InitStore /\ InitExec /\ InitConc /\ InitNoParse
    /\ lib \in { l \in Libraries : LibraryOnDisk(l) }
    /\ params \in BuildParams
    /\ plan = None

CreatePlan ==
    /\ plan = None
    /\ plan' = Some(library_plan_create(lib, params))
    /\ UNCHANGED <<lib, params>>
    /\ UNCHANGED storeVars
    /\ UNCHANGED execVars
    /\ UNCHANGED concVars
    /\ UNCHANGED parseVars

NextPlan == CreatePlan

SpecPlan == InitPlan /\ [][NextPlan]_vars

\* the files under src/ classified as source, in listed order
classified_sources(l) ==
    LET IsSource(sf) == sf.kind = "source" IN SelectSeq(l.src, IsSource)

\* C10: the plan holds an archive plan iff at least one file under src/ is
\* classified as source, and the archive compiles exactly those files, one
\* node each, whatever build_tests, build_apps and the other files are.
C10_ArchiveIffSource ==
    plan # None
    => LET pl == TheValue(plan)
           srcs == classified_sources(lib)
       IN  /\ pl.archive_plan # None <=> srcs # <<>>
           /\ pl.archive_plan # None
              => LET nodes == TheValue(pl.archive_plan).compile_files
                 IN  /\ Len(nodes) = Len(srcs)
                     /\ \A i \in 1..Len(nodes) : nodes[i].source = srcs[i]

C10_Witness ==
    /\ plan # None
    /\ TheValue(plan).archive_plan # None
    /\ ~params.build_tests
    /\ ~params.build_apps
    /\ \E i \in 1..Len(lib.src) : lib.src[i].kind = "app"

\* the entry sources of one kind the parameters admit, in listed order
admitted_entries(l, kind, enabled) ==
    IF enabled THEN of_kind(l.src, kind) ELSE <<>>

\* C11: the plan holds one link plan per app source if build_apps and per
\* test source if build_tests, none for the others, the app plans before
\* the test plans, each in listed order.
C11_OneLinkPerAdmittedEntry ==
    plan # None
    => LET pl == TheValue(plan)
           entries == admitted_entries(lib, "app", params.build_apps)
                      \o admitted_entries(lib, "test", params.build_tests)
       IN  /\ Len(pl.link_executables) = Len(entries)
           /\ \A i \in 1..Len(entries) :
                 pl.link_executables[i].compile.source = entries[i]

C11_Witness ==
    /\ plan # None
    /\ params.build_tests
    /\ ~params.build_apps
    /\ Len(of_kind(lib.src, "app")) = 1
    /\ Len(TheValue(plan).link_executables) = 1
    /\ TheValue(plan).link_executables[1].compile.source.kind = "test"

\* a sequence without the repetitions of its elements: each element stays
\* at the position of its first occurrence
RECURSIVE first_occurrences(_)
first_occurrences(seq) ==
    IF seq = <<>> THEN <<>>
    ELSE LET front == SubSeq(seq, 1, Len(seq) - 1)
             x == seq[Len(seq)]
         IN  IF \E i \in 1..Len(front) : front[i] = x
             THEN first_occurrences(front)
             ELSE first_occurrences(front) \o <<x>>

\* C12: every app link plan links against the manifest's uses followed by
\* the manifest's links, each usage once, at its first occurrence.
C12_LinkSetDeduplicated ==
    plan # None
    => \A i \in 1..Len(TheValue(plan).link_executables) :
          LET exe == TheValue(plan).link_executables[i]
          IN  exe.compile.source.kind = "app"
              => exe.links = first_occurrences(lib.uses \o lib.links)

\* C13: without build_tests the plan holds no header-independence node and
\* no link plan of a test source; with build_tests it holds one
\* header-independence node per header under src/, then one per header
\* under include/.
C13_HeaderChecksFollowBuildTests ==
    plan # None
    => LET pl == TheValue(plan)
           headers == of_kind(lib.src, "header") \o of_kind(lib.include, "header")
       IN  IF params.build_tests
           THEN /\ Len(pl.header_indep_plan) = Len(headers)
                /\ \A i \in 1..Len(headers) : pl.header_indep_plan[i].source = headers[i]
           ELSE /\ pl.header_indep_plan = <<>>
                /\ \A i \in 1..Len(pl.link_executables) :
                      pl.link_executables[i].compile.source.kind # "test"

C13_Witness ==
    /\ plan # None
    /\ ~params.build_tests
    /\ of_kind(lib.src, "header") # <<>>
    /\ of_kind(lib.include, "header") # <<>>
    /\ of_kind(lib.src, "test") # <<>>
    /\ TheValue(plan).header_indep_plan = <<>>

\* membership in a sequence
Contains(seq, x) == \E i \in 1..Len(seq) : seq[i] = x

\* C14: the plan holds exactly one render_template_plan per file of kind
\* header_template, under src/ or under include/, each targeting
\* __dds/gen/<out_dir>; and that directory is on the include path of the
\* compile rules whenever the plan holds a render_template_plan.
C14_RenderEveryTemplate ==
    plan # None
    => LET pl == TheValue(plan)
           templates == of_kind(lib.src, "header_template")
                        \o of_kind(lib.include, "header_template")
       IN  /\ Len(pl.render_templates) = Len(templates)
           /\ \A k \in 1..Len(templates) :
                 Cardinality({ i \in 1..Len(pl.render_templates) :
                                 pl.render_templates[i].source = templates[k] }) = 1
           /\ \A i \in 1..Len(pl.render_templates) :
                 pl.render_templates[i].out_dir = gen_dir_qual \o pl.out_dir
           /\ pl.render_templates # <<>>
              => Contains(pl.compile_rules.include_dirs, gen_dir_qual \o pl.out_dir)

\* seq starts with the sequence front
StartsWith(seq, front) ==
    /\ Len(front) <= Len(seq)
    /\ SubSeq(seq, 1, Len(front)) = front

\* the link plans of the entry sources of one kind, in plan order
links_of_kind(pl, kind) ==
    LET Is(exe) == exe.compile.source.kind = kind
    IN  SelectSeq(pl.link_executables, Is)

\* C15: a test link plan compiles its entry source with the manifest's uses
\* followed by test_uses, links against the library's link set followed by
\* test_uses, and lies under out_dir/test; app link plans, the archive and
\* the header-independence nodes hold no test usage and are the same as
\* in the plan built without test_uses.
C15_TestUsesOnlyInTests ==
    plan # None
    => LET pl == TheValue(plan)
           without == library_plan_create(lib, [params EXCEPT !.test_uses = <<>>])
           tests == links_of_kind(pl, "test")
           apps == links_of_kind(pl, "app")
           n == Len(params.test_uses)
       IN  /\ \A i \in 1..Len(tests) :
                 LET link_set == SubSeq(tests[i].links, 1, Len(tests[i].links) - n)
                 IN  /\ tests[i].compile.rules.uses = lib.uses \o params.test_uses
                     /\ tests[i].links = link_set \o params.test_uses
                     /\ first_occurrences(link_set)
                        = first_occurrences(lib.uses \o lib.links)
                     /\ StartsWith(tests[i].subdir, path_join(pl.out_dir, <<"test">>))
           /\ \A i \in 1..Len(apps), k \in 1..n :
                 /\ ~Contains(apps[i].links, params.test_uses[k])
                 /\ ~Contains(apps[i].compile.rules.uses, params.test_uses[k])
           /\ apps = links_of_kind(without, "app")
           /\ pl.archive_plan = without.archive_plan
           /\ pl.header_indep_plan = without.header_indep_plan

C15_Witness ==
    /\ plan # None
    /\ params.test_uses # <<>>
    /\ lib.uses # <<>>
    /\ links_of_kind(TheValue(plan), "test") # <<>>
    /\ links_of_kind(TheValue(plan), "app") # <<>>

\* compile_file_plan::calc_object_file_path: the output directory of the
\* node, then the relative path of its source
calc_object_file_path(node) == path_join(node.subdir, relative_path(node.source))

RECURSIVE compiles_of(_)
compiles_of(links) ==
    IF links = <<>> THEN <<>>
    ELSE <<Head(links).compile>> \o compiles_of(Tail(links))

\* every compile node of a plan
compile_nodes(pl) ==
    (IF pl.archive_plan = None THEN <<>> ELSE TheValue(pl.archive_plan).compile_files)
    \o compiles_of(pl.link_executables)
    \o pl.header_indep_plan

\* C16: no two compile nodes of a plan resolve to the same output file, so
\* no two executor threads hold the same output path or store record.
C16_OutputPathsUnique ==
    plan # None
    => LET nodes == compile_nodes(TheValue(plan))
       IN  \A i, j \in 1..Len(nodes) :
              i # j => calc_object_file_path(nodes[i]) # calc_object_file_path(nodes[j])

\* ---------------------------------------------------------------------
\* parse_mkfile_deps_str
\* ---------------------------------------------------------------------
\* Bound: characters in a Make-style dependency text
MaxMkText == 6

\* texts are sequences of characters
Colon == ":"
Space == " "
Backslash == "\\"
Newline == "\n"
Letter == "a"
MkChars == {Letter, Colon, Space, Backslash, Newline}
Whitespace == {Space, Newline}

TextsOver(chars, max) == UNION { [1..k -> chars] : k \in 0..max }
MkTexts == TextsOver(MkChars, MaxMkText)

\* replace(str, from, to): every occurrence of from, left to right
RECURSIVE replace(_, _, _)
replace(str, from, to) ==
    IF Len(str) < Len(from) THEN str
    ELSE IF SubSeq(str, 1, Len(from)) = from
         THEN to \o replace(SubSeq(str, Len(from) + 1, Len(str)), from, to)
         ELSE <<Head(str)>> \o replace(Tail(str), from, to)

\* split_shell_string, scanning str from position i: cur is the token being
\* read, acc the finished tokens, escaped whether a backslash precedes.
\* A backslash takes the next character literally, and an escaped newline
\* is a line continuation that adds nothing; unquoted whitespace ends a
\* token.
RECURSIVE shell_scan(_, _, _, _, _)
shell_scan(str, i, cur, acc, escaped) ==
    IF i > Len(str)
    THEN IF cur # <<>> THEN Append(acc, cur) ELSE acc
    ELSE LET c == str[i]
         IN  IF escaped
             THEN IF c = Newline
                  THEN shell_scan(str, i + 1, cur, acc, FALSE)
                  ELSE shell_scan(str, i + 1, Append(cur, c), acc, FALSE)
             ELSE IF c = Backslash
                  THEN shell_scan(str, i + 1, cur, acc, TRUE)
             ELSE IF c \in Whitespace
                  THEN shell_scan(str, i + 1, <<>>,
                                  IF cur # <<>> THEN Append(acc, cur) ELSE acc, FALSE)
             ELSE shell_scan(str, i + 1, Append(cur, c), acc, FALSE)

split_shell_string(str) == shell_scan(str, 1, <<>>, <<>>, FALSE)

ends_with(str, suffix) ==
    /\ Len(suffix) <= Len(str)
    /\ SubSeq(str, Len(str) - Len(suffix) + 1, Len(str)) = suffix

\* a default-constructed file_deps_info
EmptyDepsInfo == file_deps_info(<<>>, <<>>, <<>>)

\* a parser that keeps the inputs of a listing whose head lacks the colon
parse_mkfile_deps_str_keeps_inputs(str) ==
    LET split == split_shell_string(str)
    IN  IF split = <<>> THEN EmptyDepsInfo
        ELSE LET head == Head(split)
             IN  IF ~ends_with(head, <<Colon>>)
                 THEN file_deps_info(<<>>, <<>>, Tail(split))
                 ELSE file_deps_info(SubSeq(head, 1, Len(head) - 1), <<>>, Tail(split))

parse_mkfile_deps_str(str) ==
    LET no_newlines == replace(str, <<Backslash, Newline>>, <<Space>>)
        split == split_shell_string(str)
    IN  IF split = <<>> THEN EmptyDepsInfo
        ELSE LET head == Head(split)
             IN  IF ~ends_with(head, <<Colon>>) THEN EmptyDepsInfo
                 ELSE file_deps_info(SubSeq(head, 1, Len(head) - 1), <<>>, Tail(split))

InitMkfile ==
    /\ InitStore /\ InitExec /\ InitConc /\ InitNoPlan
    /\ text \in MkTexts
    /\ cwd = {}
    /\ parsed = None

ParseMkfileDepsStr ==
    /\ parsed = None
    /\ parsed' = Some(parse_mkfile_deps_str(text))
    /\ UNCHANGED <<text, cwd>>
    /\ UNCHANGED storeVars
    /\ UNCHANGED execVars
    /\ UNCHANGED concVars
    /\ UNCHANGED planVars

NextMkfile == ParseMkfileDepsStr

SpecMkfile == InitMkfile /\ [][NextMkfile]_vars

\* the text with every backslash-newline replaced by one space
collapsed(str) == replace(str, <<Backslash, Newline>>, <<Space>>)

\* a Make-style dependency text "<output>: <input> ..." whose backslashes
\* all belong to backslash-newline continuations, of which there is one
MkListing(str) ==
    LET tokens == split_shell_string(collapsed(str))
    IN  /\ ~Contains(collapsed(str), Backslash)
        /\ collapsed(str) # str
        /\ tokens # <<>>
        /\ ends_with(Head(tokens), <<Colon>>)
        /\ Len(Head(tokens)) > 1

\* C17: on a Make-style dependency text with continuations, the result is
\* that of tokenizing the text with each backslash-newline replaced by one
\* space: the output is the first token without its colon, the inputs are
\* the other tokens in order, and no input holds a backslash or a newline.
C17_ContinuationIsSpace ==
    parsed # None /\ MkListing(text)
    => LET r == TheValue(parsed)
           tokens == split_shell_string(collapsed(text))
       IN  /\ r.output = SubSeq(Head(tokens), 1, Len(Head(tokens)) - 1)
           /\ r.inputs = Tail(tokens)
           /\ \A i \in 1..Len(r.inputs) :
                 /\ ~Contains(r.inputs[i], Backslash)
                 /\ ~Contains(r.inputs[i], Newline)

\* the store after a node whose toolchain reported the inputs ins is
\* recorded over a prior record with the inputs before
recorded_over(before, o, c, ins) ==
    LET d0 == update_deps_info(EmptyDatabase, fs, file_deps_info(o, c, before)).db
    IN  update_deps_info(d0, fs, file_deps_info(o, c, ins)).db

\* C18: when the token stream is empty or its first token does not end
\* with a colon, the result is empty: no output path and no input; and a
\* node recorded with the inputs of an empty result is recompiled by the
\* next invocation, whatever was recorded for it before.
C18_MalformedGivesEmpty ==
    parsed # None
    => LET r == TheValue(parsed)
           split == split_shell_string(text)
       IN  /\ (split = <<>> \/ ~ends_with(Head(split), <<Colon>>))
              => /\ r.output = <<>>
                 /\ r.inputs = <<>>
           /\ r = EmptyDepsInfo
              => \A o \in Outputs, c \in Commands, before \in ReportedInputLists :
                    should_compile(
                        get_prior_compilation(recorded_over(before, o, c, r.inputs), fs, o),
                        c)

C18_Witness ==
    /\ parsed # None
    /\ Len(split_shell_string(text)) = 2
    /\ ~ends_with(Head(split_shell_string(text)), <<Colon>>)
    /\ TheValue(parsed) = EmptyDepsInfo

\* ---------------------------------------------------------------------
\* parse_msvc_output_for_deps
\* ---------------------------------------------------------------------
\* Bound: characters in a compiler output text
MaxMsvcText == 6

LeaderChar == "L"
MsvcChars == {LeaderChar, Letter, Space, Newline}
MsvcTexts == TextsOver(MsvcChars, MaxMsvcText)
Leaders == { <<LeaderChar>>, <<LeaderChar, LeaderChar>> }

\* split_view(str, sep), scanning from position i: the piece being read
\* starts at position start. Every occurrence of sep ends a piece, and what
\* follows the last occurrence is a piece too, empty or not.
RECURSIVE split_scan(_, _, _, _)
split_scan(str, sep, i, start) ==
    IF i + Len(sep) - 1 > Len(str)
    THEN <<SubSeq(str, start, Len(str))>>
    ELSE IF SubSeq(str, i, i + Len(sep) - 1) = sep
         THEN <<SubSeq(str, start, i - 1)>>
              \o split_scan(str, sep, i + Len(sep), i + Len(sep))
         ELSE split_scan(str, sep, i + 1, start)

split_view(str, sep) == split_scan(str, sep, 1, 1)

\* trim_view: without the whitespace at both ends
RECURSIVE trim_view(_)
trim_view(str) ==
    IF str = <<>> THEN str
    ELSE IF Head(str) \in Whitespace THEN trim_view(Tail(str))
    ELSE IF str[Len(str)] \in Whitespace THEN trim_view(SubSeq(str, 1, Len(str) - 1))
    ELSE str

starts_with(str, prefix) ==
    /\ Len(prefix) <= Len(str)
    /\ SubSeq(str, 1, Len(prefix)) = prefix

\* the names a file of the working directory can have
WorkingDirNames == { <<Letter>>, <<Letter, Letter>> }

\* fs::current_path
current_path == <<"/", "w">>

\* fs::weakly_canonical of a path without separators or dots, where present
\* holds the names of the files in the working directory: the name of a
\* file that exists becomes its absolute path, any other path has no
\* leading element that exists and is returned as it is
weakly_canonical(present, path) ==
    IF path \in present THEN current_path \o <<"/">> \o path ELSE path

\* lines 52-61: the loop over the lines
RECURSIVE msvc_scan(_, _, _, _, _)
msvc_scan(present, lines, leader, inputs, cleaned_output) ==
    IF lines = <<>> THEN [inputs |-> inputs, cleaned_output |-> cleaned_output]
    ELSE LET full_line == Head(lines)
             trimmed == trim_view(full_line)
             remaining == trim_view(SubSeq(trimmed, Len(leader) + 1, Len(trimmed)))
         IN  IF ~starts_with(trimmed, leader)
             THEN msvc_scan(present, Tail(lines), leader, inputs,
                            cleaned_output \o full_line \o <<Newline>>)
             ELSE msvc_scan(present, Tail(lines), leader,
                            Append(inputs, weakly_canonical(present, remaining)),
                            cleaned_output)

\* parse_msvc_output_for_deps in a working directory that holds the files
\* named in present
parse_msvc_output_for_deps(present, output, leader) ==
    LET r == msvc_scan(present, split_view(output, <<Newline>>), leader, <<>>, <<>>)
        cleaned_output == IF r.cleaned_output # <<>>
                          THEN SubSeq(r.cleaned_output, 1, Len(r.cleaned_output) - 1)
                          ELSE r.cleaned_output
    IN  [deps |-> file_deps_info(<<>>, <<>>, r.inputs),
         cleaned_output |-> cleaned_output]

InitMsvc ==
    /\ InitStore /\ InitExec /\ InitConc /\ InitNoPlan
    /\ text \in MsvcTexts
    /\ cwd \in SUBSET WorkingDirNames
    /\ parsed = None

ParseMsvcOutputForDeps(leader) ==
    /\ parsed = None
    /\ parsed' = Some([leader |-> leader,
                       result |-> parse_msvc_output_for_deps(cwd, text, leader)])
    /\ UNCHANGED <<text, cwd>>
    /\ UNCHANGED storeVars
    /\ UNCHANGED execVars
    /\ UNCHANGED concVars
    /\ UNCHANGED planVars

NextMsvc == \E leader \in Leaders : ParseMsvcOutputForDeps(leader)

SpecMsvc == InitMsvc /\ [][NextMsvc]_vars

\* the lines of a text: a newline ends a line, so a text that ends in a
\* newline has no line after it
lines_of(str) ==
    LET pieces == split_view(str, <<Newline>>)
    IN  IF pieces[Len(pieces)] = <<>> THEN SubSeq(pieces, 1, Len(pieces) - 1) ELSE pieces

\* the lines joined by newlines
RECURSIVE joined(_)
joined(lines) ==
    IF lines = <<>> THEN <<>>
    ELSE IF Len(lines) = 1 THEN Head(lines)
    ELSE Head(lines) \o <<Newline>> \o joined(Tail(lines))

\* what follows the leader in each line, trimmed, in weakly canonical form
RECURSIVE remainders(_, _)
remainders(lines, leader) ==
    IF lines = <<>> THEN <<>>
    ELSE LET trimmed == trim_view(Head(lines))
             rest == trim_view(SubSeq(trimmed, Len(leader) + 1, Len(trimmed)))
         IN  <<weakly_canonical(cwd, rest)>> \o remainders(Tail(lines), leader)

\* C19: the lines whose trimmed form starts with the leader give the
\* inputs, one each and in order, as the trimmed rest of the line in weakly
\* canonical form; the cleaned output is the other lines, verbatim and in
\* order, joined by newlines, so it does not end in the newline that ended
\* the text.
C19_LinesPartitioned ==
    parsed # None
    => LET leader == TheValue(parsed).leader
           r == TheValue(parsed).result
           Matches(line) == starts_with(trim_view(line), leader)
           Other(line) == ~Matches(line)
       IN  /\ r.deps.inputs = remainders(SelectSeq(lines_of(text), Matches), leader)
           /\ r.cleaned_output = joined(SelectSeq(lines_of(text), Other))

\* ---------------------------------------------------------------------
\* Frame of the store operations
\* ---------------------------------------------------------------------
\* C20: update_deps_info for one output leaves command_of and inputs_of of
\* every other output as they were, also when the outputs share input
\* files, and get_prior_compilation leaves the store as it was.
C20_OtherOutputsUntouched ==
    [][/\ last'.op = "update_deps_info"
          => \A other \in Outputs \ {last'.output} :
                /\ command_of(db', other) = command_of(db, other)
                /\ inputs_of(db', other) = inputs_of(db, other)
       /\ last'.op = "get_prior_compilation" => db' = db]_vars

C20_Witness ==
    /\ last.op = "update_deps_info"
    /\ last.output = "o1"
    /\ db.compilations["o1"] # db.compilations["o2"]
    /\ db.deps["o1"] # <<>>
    /\ db.deps["o2"] # <<>>
    /\ db.deps["o1"][1].path = db.deps["o2"][1].path
    /\ db.deps["o1"][1].last_mtime # db.deps["o2"][1].last_mtime

====
